---- MODULE Spec2Model ----
(***************************************************************************)
(* Whirlwind: the off-chain Merkle accumulator (MerkleTree), the witness   *)
(* generator (NoirCircuitTomlGenerator), the deposit and withdraw circuits *)
(* and the on-chain ledger (Whirlwind.sol).                                *)
(*                                                                         *)
(* Field elements are terms: an atom is the 1-tuple <<n>>, a Pedersen hash *)
(* of two elements is the pair <<left, right>>.  The hash is therefore     *)
(* injective and never collides with an atom.                              *)
(***************************************************************************)
EXTENDS Integers, Sequences, FiniteSets, TLC

(* ------------------------------ bounds -------------------------------- *)

\* Tree depth (MerkleTree.levels, _merkleTreeDepth).  The generator and the
\* circuits use 8, the lab2 demo uses 3; the algorithms are the same at
\* every depth.
Depth == 2

RECURSIVE Pow2(_)
Pow2(n) == IF n = 0 THEN 1 ELSE 2 * Pow2(n - 1)

Capacity == Pow2(Depth)

\* insert() is called at most this many times (one past the capacity).
MaxLeaves == Capacity + 1

\* How many leaf slots a behaviour writes first by a call that is neither
\* insert() nor an in-place update() of an inserted leaf.
MaxDirect == 1

(* --------------------------- field elements --------------------------- *)

\* Leading byte (0x18) of the empty-leaf constant
\* 0x18d85f3de6dcd78b6ffbf5d8374433a5528d8e3bf2100df0b7bb43a4c59ebd63.
ZeroLeafByte == 24

zeroValue == <<ZeroLeafByte>>

\* bb.pedersenHash([left, right], 0)
pedersenHash(left, right) == <<left, right>>

\* Leaves handed to insert/update by callers.
Leaves == {<<1>>, <<2>>}

\* JavaScript's remainder: the sign follows the dividend.
JsRem(a, b) == IF a >= 0 THEN a % b ELSE -((-a) % b)

(* ------------------------ Map<string, Fr> ----------------------------- *)
\* A JavaScript Map: entries in insertion order, set() on a present key
\* replaces the value in place.

indexToKey(level, index) == <<level, index>>

MapHas(m, k) == \E i \in 1..Len(m) : m[i].key = k

MapGet(m, k) == m[CHOOSE i \in 1..Len(m) : m[i].key = k].value

MapSet(m, k, v) ==
  IF MapHas(m, k)
    THEN [i \in 1..Len(m) |-> IF m[i].key = k THEN [key |-> k, value |-> v] ELSE m[i]]
    ELSE Append(m, [key |-> k, value |-> v])

(* ----------------------------- MerkleTree ----------------------------- *)

\* new MerkleTree(levels)
MerkleTree(levels) ==
  [levels |-> levels, storage |-> <<>>, zeros |-> <<>>, totalLeaves |-> 0]

\* A zero array whose next entry pairs the last one with the leaf constant.
RECURSIVE buildZerosWithLeaf(_, _)
buildZerosWithLeaf(zs, n) ==
  IF n = 0 THEN zs
  ELSE buildZerosWithLeaf(Append(zs, pedersenHash(zs[Len(zs)], zs[1])), n - 1)

\* zeros[level] of the source is zeros[level + 1] here (sequences start at 1).
RECURSIVE buildZeros(_, _)
buildZeros(zs, n) ==
  IF n = 0 THEN zs
  ELSE buildZeros(Append(zs, pedersenHash(zs[Len(zs)], zs[Len(zs)])), n - 1)

\* A lookup that falls back to the leaf-level constant at every level.
nodeOrLeafZero(t, level, index) ==
  IF MapHas(t.storage, indexToKey(level, index))
    THEN MapGet(t.storage, indexToKey(level, index))
    ELSE t.zeros[1]

\* this.storage.get(indexToKey(level, index)) || this.zeros[level]
nodeOrZero(t, level, index) ==
  IF MapHas(t.storage, indexToKey(level, index))
    THEN MapGet(t.storage, indexToKey(level, index))
    ELSE t.zeros[level + 1]

\* A traversal that stays at the leaf's index on every level.
RECURSIVE traverseFromNoHalving(_, _, _)
traverseFromNoHalving(levels, i, currentIndex) ==
  IF i >= levels THEN <<>>
  ELSE <<[level |-> i,
          currentIndex |-> currentIndex,
          siblingIndex |-> IF JsRem(currentIndex, 2) = 0
                             THEN currentIndex + 1
                             ELSE currentIndex - 1]>>
       \o traverseFromNoHalving(levels, i + 1, currentIndex)

\* The (level, currentIndex, siblingIndex) triples traverse() hands to its
\* handler, in call order.
RECURSIVE traverseFrom(_, _, _)
traverseFrom(levels, i, currentIndex) ==
  IF i >= levels THEN <<>>
  ELSE <<[level |-> i,
          currentIndex |-> currentIndex,
          siblingIndex |-> IF JsRem(currentIndex, 2) = 0
                             THEN currentIndex + 1
                             ELSE currentIndex - 1]>>
       \o traverseFrom(levels, i + 1, currentIndex \div 2)

traverse(t, indexOfLeaf) == traverseFrom(t.levels, 0, indexOfLeaf)

root(t) == nodeOrZero(t, t.levels, 0)

\* A proof whose pathIndices are the parities of the sibling indices.
proofSiblingParity(t, indexOfLeaf) ==
  LET steps == traverse(t, indexOfLeaf)
  IN [root |-> root(t),
      pathElements |-> [k \in 1..Len(steps) |->
                          nodeOrZero(t, steps[k].level, steps[k].siblingIndex)],
      pathIndices |-> [k \in 1..Len(steps) |-> JsRem(steps[k].siblingIndex, 2)],
      leaf |-> nodeOrZero(t, 0, indexOfLeaf)]

\* proof(indexOfLeaf)
proof(t, indexOfLeaf) ==
  LET steps == traverse(t, indexOfLeaf)
  IN [root |-> root(t),
      pathElements |-> [k \in 1..Len(steps) |->
                          nodeOrZero(t, steps[k].level, steps[k].siblingIndex)],
      pathIndices |-> [k \in 1..Len(steps) |-> JsRem(steps[k].currentIndex, 2)],
      leaf |-> nodeOrZero(t, 0, indexOfLeaf)]

\* A climb that ignores what is stored beside the path and pairs every node
\* with the level's zero constant.
RECURSIVE climbOverZeros(_, _, _, _)
climbOverZeros(t, steps, k, currentElement) ==
  IF k > Len(steps) THEN [kv |-> <<>>, top |-> currentElement]
  ELSE LET s == steps[k]
           siblingElement == t.zeros[s.level + 1]
           left == IF JsRem(s.currentIndex, 2) = 0 THEN currentElement ELSE siblingElement
           right == IF JsRem(s.currentIndex, 2) = 0 THEN siblingElement ELSE currentElement
           rest == climbOverZeros(t, steps, k + 1, pedersenHash(left, right))
       IN [kv |-> <<[key |-> indexToKey(s.level, s.currentIndex),
                     value |-> currentElement]>> \o rest.kv,
           top |-> rest.top]

\* update()'s handler, run over the steps from k on: the entries pushed on
\* keyValueToStore and the last currentElement.
RECURSIVE climb(_, _, _, _)
climb(t, steps, k, currentElement) ==
  IF k > Len(steps) THEN [kv |-> <<>>, top |-> currentElement]
  ELSE LET s == steps[k]
           siblingElement == nodeOrZero(t, s.level, s.siblingIndex)
           left == IF JsRem(s.currentIndex, 2) = 0 THEN currentElement ELSE siblingElement
           right == IF JsRem(s.currentIndex, 2) = 0 THEN siblingElement ELSE currentElement
           rest == climb(t, steps, k + 1, pedersenHash(left, right))
       IN [kv |-> <<[key |-> indexToKey(s.level, s.currentIndex),
                     value |-> currentElement]>> \o rest.kv,
           top |-> rest.top]

RECURSIVE commit(_, _, _)
commit(storage, kv, k) ==
  IF k > Len(kv) THEN storage
  ELSE commit(MapSet(storage, kv[k].key, kv[k].value), kv, k + 1)

\* Mode checks that let an in-place update through at the frontier.
updateThrowsPastFrontier(t, index, isInsert) ==
  \/ ~isInsert /\ index > t.totalLeaves
  \/ isInsert /\ index < t.totalLeaves

updateThrows(t, index, isInsert) ==
  \/ ~isInsert /\ index >= t.totalLeaves
  \/ isInsert /\ index < t.totalLeaves

\* update(index, newLeaf, isInsert): [threw, tree]
update(t, index, newLeaf, isInsert) ==
  IF updateThrows(t, index, isInsert)
    THEN [threw |-> TRUE, tree |-> t]
    ELSE LET c == climb(t, traverse(t, index), 1, newLeaf)
             keyValueToStore ==
               Append(c.kv, [key |-> indexToKey(t.levels, 0), value |-> c.top])
         IN [threw |-> FALSE,
             tree |-> [t EXCEPT !.storage = commit(t.storage, keyValueToStore, 1)]]

\* An insert that forgets this.totalLeaves++.
insertNoCount(t, leaf) == update(t, t.totalLeaves, leaf, TRUE)

\* insert(leaf): [threw, tree]
insert(t, leaf) ==
  LET u == update(t, t.totalLeaves, leaf, TRUE)
  IN IF u.threw THEN u
     ELSE [threw |-> FALSE, tree |-> [u.tree EXCEPT !.totalLeaves = @ + 1]]

RECURSIVE insertAll(_, _, _)
insertAll(t, leaves, k) ==
  IF k > Len(leaves) THEN t ELSE insertAll(insert(t, leaves[k]).tree, leaves, k + 1)

\* initialize(defaultLeaves)
initialize(t, defaultLeaves) ==
  insertAll([t EXCEPT !.zeros = buildZeros(Append(t.zeros, zeroValue), t.levels)],
            defaultLeaves, 1)

\* A proof() that stores the defaults it falls back to.
proofCallCachesDefaults(t, indexOfLeaf) ==
  LET steps == traverse(t, indexOfLeaf)
      missing == [k \in 1..Len(steps) |->
                    [key |-> indexToKey(steps[k].level, steps[k].siblingIndex),
                     value |-> nodeOrZero(t, steps[k].level, steps[k].siblingIndex)]]
  IN [tree |-> [t EXCEPT !.storage = commit(t.storage, missing, 1)],
      result |-> proof(t, indexOfLeaf)]

\* A call of proof(indexOfLeaf): the object afterwards and the value returned.
proofCall(t, indexOfLeaf) == [tree |-> t, result |-> proof(t, indexOfLeaf)]

\* A call of root(): the object afterwards and the value returned.
rootCall(t) == [tree |-> t, result |-> root(t)]

\* Number(key.split('-')[1]) for the key `${level}-${index}`: the text
\* between the first and the second dash, which is empty (and converts to 0)
\* when the index is negative.
keyIndex(key) == IF key[2] < 0 THEN 0 ELSE key[2]

\* getIndex's loop over the storage entries from the k-th on, in insertion
\* order.
RECURSIVE getIndexFrom(_, _, _)
getIndexFrom(storage, leaf, k) ==
  IF k > Len(storage) THEN -1
  ELSE IF storage[k].value = leaf THEN keyIndex(storage[k].key)
  ELSE getIndexFrom(storage, leaf, k + 1)

\* getIndex(leaf)
getIndex(t, leaf) == getIndexFrom(t.storage, leaf, 1)

(* ------------------------------ circuits ------------------------------ *)

\* The empty-leaf constant written into deposit.nr (leading byte, as above).
CircuitZeroByte == 24

\* num.toString(16).padStart(64, '0') read back by Fr.fromString, and
\* bytes32(uint256(depositIndex)): the number as a field element.
numToFr(num) == <<num>>

\* index.to_le_bits::<8>() succeeds only for a value below 2^Depth.
fitsBits(index) == Len(index) = 1 /\ index[1] \in 0..(Capacity - 1)

toLeBits(index) == [i \in 1..Depth |-> (index[1] \div Pow2(i - 1)) % 2]

\* A walk with the operands the other way round.
RECURSIVE walkFromMirrored(_, _, _, _)
walkFromMirrored(cur, path, bits, i) ==
  IF i > Len(path) THEN cur
  ELSE walkFromMirrored(IF bits[i] = 1 THEN pedersenHash(cur, path[i])
                                       ELSE pedersenHash(path[i], cur),
                        path, bits, i + 1)

\* The Merkle walk of deposit.nr and withdraw.nr: bits[i] = 1 puts the running
\* value on the right of path[i].
RECURSIVE walkFrom(_, _, _, _)
walkFrom(cur, path, bits, i) ==
  IF i > Len(path) THEN cur
  ELSE walkFrom(IF bits[i] = 1 THEN pedersenHash(path[i], cur)
                               ELSE pedersenHash(cur, path[i]),
                path, bits, i + 1)

walk(cur, path, bits) == walkFrom(cur, path, bits, 1)

\* deposit.nr without the walk from the empty-leaf constant to oldRoot.
depositCircuitNoOldRoot(id, r, oldPath, oldRoot, newRoot, commitment, index) ==
  /\ pedersenHash(id, r) = commitment
  /\ fitsBits(index)
  /\ walk(commitment, oldPath, toLeBits(index)) = newRoot

\* deposit.nr main: the conjunction of its assertions.
depositCircuit(id, r, oldPath, oldRoot, newRoot, commitment, index) ==
  /\ pedersenHash(id, r) = commitment
  /\ fitsBits(index)
  /\ walk(<<CircuitZeroByte>>, oldPath, toLeBits(index)) = oldRoot
  /\ walk(commitment, oldPath, toLeBits(index)) = newRoot

\* withdraw.nr main: the conjunction of its assertions.
withdrawCircuit(r, index, path, pubRoot, id) ==
  /\ fitsBits(index)
  /\ walk(pedersenHash(id, r), path, toLeBits(index)) = pubRoot

(* --------------------------- proof boundary --------------------------- *)

\* A proof carries the circuit it was made for and the public inputs it was
\* made with.  Bytes that came out of no prover prove nothing.
Garbage == [circuit |-> "none", pub |-> [none |-> <<>>]]

\* The prover: a proof exists only for a witness that satisfies the circuit.
prove(circuit, satisfied, pub) ==
  IF satisfied THEN [circuit |-> circuit, pub |-> pub] ELSE Garbage

\* The circuit a verifier contract was generated from.
circuitOf(verifier) ==
  IF verifier = "DepositVerifier" THEN "deposit"
  ELSE IF verifier = "WithdrawVerifier" THEN "withdraw"
  ELSE "unknown"

\* IVerifier(verifier).verify(proof, publicInputs): whether the proof shows
\* the verifier's circuit satisfied with the public inputs handed over.  The
\* inputs are labelled with the circuit input each word stands for; an input
\* the caller does not hand over is not bound by the check.
verify(verifier, prf, publicInputs) ==
  /\ prf.circuit = circuitOf(verifier)
  /\ \A f \in DOMAIN publicInputs : prf.pub[f] = publicInputs[f]

(* ------------------------------ Whirlwind ------------------------------ *)

\* 0.1 ether, counted in tenths of an ether.
UNIT == 1

\* Accounts that call the ledger.  "vault" is a contract that refuses
\* incoming ether, so a transfer to it reverts.
Callers == {"alice", "vault"}

Refusing == {"vault"}

\* constructor(_depositVerifier, _withdrawVerifier, _merkleTreeDepth,
\* _initialRoot), deployed by sender from the given source file.
\* usedNullifiers holds the nullifiers mapped to true; depositLog and
\* withdrawLog are the emitted events of each type, in emission order.
Whirlwind(contract, sender, dVerifier, wVerifier, merkleTreeDepth, initialRoot) ==
  [contract |-> contract,
   owner |-> sender,
   depositVerifier |-> dVerifier,
   withdrawVerifier |-> wVerifier,
   depositIndex |-> 0,
   maxDeposits |-> Pow2(merkleTreeDepth),
   usedNullifiers |-> {},
   currentRoot |-> initialRoot,
   balance |-> 0,
   depositLog |-> <<>>,
   withdrawLog |-> <<>>,
   paid |-> [a \in Callers |-> 0]]

\* require(...) failed: the whole call is rolled back.
revert(w, reason, verifierCalled) ==
  [state |-> w, result |-> reason, verifierCalled |-> verifierCalled]

\* payable(to).transfer(amount) succeeds.
transferOk(w, to, amount) == w.balance >= amount /\ to \notin Refusing

\* Deposit effects with the event emitted after depositIndex++.
depositEffectsEventLate(w, newRoot, commitment, value) ==
  [w EXCEPT !.currentRoot = newRoot,
            !.depositLog = Append(@, [newRoot |-> newRoot,
                                      commitment |-> commitment,
                                      index |-> w.depositIndex + 1]),
            !.depositIndex = @ + 1,
            !.balance = @ + value]

\* Deposit effects that advance depositIndex by two.
depositEffectsSkipsIndex(w, newRoot, commitment, value) ==
  [w EXCEPT !.currentRoot = newRoot,
            !.depositLog = Append(@, [newRoot |-> newRoot,
                                      commitment |-> commitment,
                                      index |-> w.depositIndex]),
            !.depositIndex = @ + 2,
            !.balance = @ + value]

\* Deposit effects that leave currentRoot as it was.
depositEffectsKeepsRoot(w, newRoot, commitment, value) ==
  [w EXCEPT !.depositLog = Append(@, [newRoot |-> newRoot,
                                      commitment |-> commitment,
                                      index |-> w.depositIndex]),
            !.depositIndex = @ + 1,
            !.balance = @ + value]

\* The effects of an accepted deposit (both source files).
depositEffects(w, newRoot, commitment, value) ==
  [w EXCEPT !.currentRoot = newRoot,
            !.depositLog = Append(@, [newRoot |-> newRoot,
                                      commitment |-> commitment,
                                      index |-> w.depositIndex]),
            !.depositIndex = @ + 1,
            !.balance = @ + value]

\* Withdraw effects that keep only the latest nullifier marked.
withdrawEffectsForgetsOthers(w, sender, nullifier) ==
  [w EXCEPT !.usedNullifiers = {nullifier},
            !.withdrawLog = Append(@, [recipient |-> sender, nullifier |-> nullifier]),
            !.balance = @ - UNIT,
            !.paid[sender] = @ + UNIT]

\* Withdraw effects that also reset depositIndex.
withdrawEffectsResetsIndex(w, sender, nullifier) ==
  [w EXCEPT !.usedNullifiers = @ \cup {nullifier},
            !.withdrawLog = Append(@, [recipient |-> sender, nullifier |-> nullifier]),
            !.balance = @ - UNIT,
            !.paid[sender] = @ + UNIT,
            !.depositIndex = 0]

\* The effects of an accepted withdraw (both source files).
withdrawEffects(w, sender, nullifier) ==
  [w EXCEPT !.usedNullifiers = @ \cup {nullifier},
            !.withdrawLog = Append(@, [recipient |-> sender, nullifier |-> nullifier]),
            !.balance = @ - UNIT,
            !.paid[sender] = @ + UNIT]

\* A deposit whose limit check is depositIndex <= maxDeposits.
depositOffByOne(w, prf, newRoot, commitment, value) ==
  IF ~(w.depositIndex <= w.maxDeposits)
    THEN revert(w, "Deposit limit reached", FALSE)
  ELSE IF value # UNIT
    THEN revert(w, "Must deposit exactly 0.1 ETH", FALSE)
  ELSE IF ~verify(w.depositVerifier, prf,
                  [oldRoot |-> w.currentRoot, newRoot |-> newRoot,
                   commitment |-> commitment, index |-> numToFr(w.depositIndex)])
    THEN revert(w, "Invalid deposit proof", TRUE)
  ELSE [state |-> depositEffects(w, newRoot, commitment, value),
        result |-> "ok", verifierCalled |-> TRUE]

\* A deposit whose verifier call hands over neither currentRoot nor
\* depositIndex.
depositUnboundWitness(w, prf, newRoot, commitment, value) ==
  IF ~(w.depositIndex < w.maxDeposits)
    THEN revert(w, "Deposit limit reached", FALSE)
  ELSE IF value # UNIT
    THEN revert(w, "Must deposit exactly 0.1 ETH", FALSE)
  ELSE IF ~verify(w.depositVerifier, prf,
                  [newRoot |-> newRoot, commitment |-> commitment])
    THEN revert(w, "Invalid deposit proof", TRUE)
  ELSE [state |-> depositEffects(w, newRoot, commitment, value),
        result |-> "ok", verifierCalled |-> TRUE]

\* A deposit that checks the payment after the proof.
depositChecksValueLast(w, prf, newRoot, commitment, value) ==
  IF ~(w.depositIndex < w.maxDeposits)
    THEN revert(w, "Deposit limit reached", FALSE)
  ELSE IF ~verify(w.depositVerifier, prf,
                  [oldRoot |-> w.currentRoot, newRoot |-> newRoot,
                   commitment |-> commitment, index |-> numToFr(w.depositIndex)])
    THEN revert(w, "Invalid deposit proof", TRUE)
  ELSE IF value # UNIT
    THEN revert(w, "Must deposit exactly 0.1 ETH", TRUE)
  ELSE [state |-> depositEffects(w, newRoot, commitment, value),
        result |-> "ok", verifierCalled |-> TRUE]

\* Whirlwind.deposit of the provided contract (README, part_001).
deposit(w, prf, newRoot, commitment, value) ==
  IF ~(w.depositIndex < w.maxDeposits)
    THEN revert(w, "Deposit limit reached", FALSE)
  ELSE IF value # UNIT
    THEN revert(w, "Must deposit exactly 0.1 ETH", FALSE)
  ELSE IF ~verify(w.depositVerifier, prf,
                  [oldRoot |-> w.currentRoot, newRoot |-> newRoot,
                   commitment |-> commitment, index |-> numToFr(w.depositIndex)])
    THEN revert(w, "Invalid deposit proof", TRUE)
  ELSE [state |-> depositEffects(w, newRoot, commitment, value),
        result |-> "ok", verifierCalled |-> TRUE]

\* A withdraw that verifies the proof before it looks at usedNullifiers.
withdrawVerifiesFirst(w, sender, prf, nullifier) ==
  IF ~verify(w.withdrawVerifier, prf,
             [root |-> w.currentRoot, id |-> nullifier])
    THEN revert(w, "Invalid withdraw proof", TRUE)
  ELSE IF nullifier \in w.usedNullifiers
    THEN revert(w, "Nullifier already used", TRUE)
  ELSE IF ~transferOk(w, sender, UNIT)
    THEN revert(w, "transfer failed", TRUE)
  ELSE [state |-> withdrawEffects(w, sender, nullifier),
        result |-> "ok", verifierCalled |-> TRUE]

\* A withdraw without the usedNullifiers check.
withdrawNoNullifierCheck(w, sender, prf, nullifier) ==
  IF ~verify(w.withdrawVerifier, prf,
             [root |-> w.currentRoot, id |-> nullifier])
    THEN revert(w, "Invalid withdraw proof", TRUE)
  ELSE IF ~transferOk(w, sender, UNIT)
    THEN revert(w, "transfer failed", TRUE)
  ELSE [state |-> withdrawEffects(w, sender, nullifier),
        result |-> "ok", verifierCalled |-> TRUE]

\* A withdraw that pays with an unchecked send(): a failed payout does not
\* revert the call.
withdrawUncheckedSend(w, sender, prf, nullifier) ==
  IF nullifier \in w.usedNullifiers
    THEN revert(w, "Nullifier already used", FALSE)
  ELSE IF ~verify(w.withdrawVerifier, prf,
                  [root |-> w.currentRoot, id |-> nullifier])
    THEN revert(w, "Invalid withdraw proof", TRUE)
  ELSE IF ~transferOk(w, sender, UNIT)
    THEN [state |-> [w EXCEPT !.usedNullifiers = @ \cup {nullifier},
                              !.withdrawLog = Append(@, [recipient |-> sender,
                                                         nullifier |-> nullifier])],
          result |-> "ok", verifierCalled |-> TRUE]
  ELSE [state |-> withdrawEffects(w, sender, nullifier),
        result |-> "ok", verifierCalled |-> TRUE]

\* Whirlwind.withdraw of the provided contract (README, part_001).
withdraw(w, sender, prf, nullifier) ==
  IF nullifier \in w.usedNullifiers
    THEN revert(w, "Nullifier already used", FALSE)
  ELSE IF ~verify(w.withdrawVerifier, prf,
                  [root |-> w.currentRoot, id |-> nullifier])
    THEN revert(w, "Invalid withdraw proof", TRUE)
  ELSE IF ~transferOk(w, sender, UNIT)
    THEN revert(w, "transfer failed", TRUE)
  ELSE [state |-> withdrawEffects(w, sender, nullifier),
        result |-> "ok", verifierCalled |-> TRUE]

\* Whirlwind.deposit of hw5/contracts/whirlwind.sol: the verifier is handed
\* abi.encodePacked(commitment, depositIndex, newRoot).
depositPacked(w, prf, newRoot, commitment, value) ==
  IF ~(w.depositIndex < w.maxDeposits)
    THEN revert(w, "Deposit limit reached", FALSE)
  ELSE IF value # UNIT
    THEN revert(w, "Must deposit exactly 0.1 ETH", FALSE)
  ELSE IF ~verify(w.depositVerifier, prf,
                  [commitment |-> commitment, index |-> numToFr(w.depositIndex),
                   newRoot |-> newRoot])
    THEN revert(w, "Invalid deposit proof", TRUE)
  ELSE [state |-> depositEffects(w, newRoot, commitment, value),
        result |-> "ok", verifierCalled |-> TRUE]

\* Whirlwind.withdraw of hw5/contracts/whirlwind.sol: the root is an argument
\* and the verifier is handed abi.encodePacked(root, nullifier).
withdrawWithRoot(w, sender, prf, callerRoot, nullifier) ==
  IF nullifier \in w.usedNullifiers
    THEN revert(w, "Nullifier already used", FALSE)
  ELSE IF ~verify(w.withdrawVerifier, prf,
                  [root |-> callerRoot, id |-> nullifier])
    THEN revert(w, "Invalid withdraw proof", TRUE)
  ELSE IF ~transferOk(w, sender, UNIT)
    THEN revert(w, "transfer failed", TRUE)
  ELSE [state |-> withdrawEffects(w, sender, nullifier),
        result |-> "ok", verifierCalled |-> TRUE]

\* usedNullifiers[nullifier] = true and emit Withdraw(msg.sender, nullifier):
\* the statements of withdraw that precede the transfer.
withdrawMark(w, sender, nullifier) ==
  [w EXCEPT !.usedNullifiers = @ \cup {nullifier},
            !.withdrawLog = Append(@, [recipient |-> sender, nullifier |-> nullifier])]

\* payable(msg.sender).transfer(0.1 ether): the funds have moved when the
\* recipient's code starts to run.
withdrawSend(w, sender) ==
  [w EXCEPT !.balance = @ - UNIT,
            !.paid[sender] = @ + UNIT]

\* withdraw of the source file w was deployed from.
withdrawCall(w, sender, prf, callerRoot, nullifier) ==
  IF w.contract = "provided"
    THEN withdraw(w, sender, prf, nullifier)
    ELSE withdrawWithRoot(w, sender, prf, callerRoot, nullifier)

\* A withdraw whose recipient is called while the nullifier is still unmarked:
\* the nullifier is marked after the transfer.
withdrawReentrantMarksLate(w, sender, prf, callerRoot, nullifier, catches) ==
  LET outer == withdrawCall(w, sender, prf, callerRoot, nullifier)
      sent == withdrawSend(w, sender)
      inner == withdrawCall(sent, sender, prf, callerRoot, nullifier)
  IN IF outer.result # "ok"
       THEN [state |-> w, result |-> outer.result,
             verifierCalled |-> outer.verifierCalled, nested |-> "none"]
     ELSE IF inner.result # "ok" /\ ~catches
       THEN [state |-> w, result |-> "transfer failed",
             verifierCalled |-> TRUE, nested |-> inner.result]
     ELSE [state |-> withdrawMark(inner.state, sender, nullifier), result |-> "ok",
           verifierCalled |-> TRUE, nested |-> inner.result]

\* withdraw called by a contract whose receive function calls withdraw again
\* with the same arguments. The nested call runs on the state the transfer
\* is made in; when it reverts, the recipient either catches the failure and
\* takes the payment, or reverts too and the transfer fails.
withdrawReentrant(w, sender, prf, callerRoot, nullifier, catches) ==
  LET outer == withdrawCall(w, sender, prf, callerRoot, nullifier)
      sent == withdrawSend(withdrawMark(w, sender, nullifier), sender)
      inner == withdrawCall(sent, sender, prf, callerRoot, nullifier)
  IN IF outer.result # "ok"
       THEN [state |-> w, result |-> outer.result,
             verifierCalled |-> outer.verifierCalled, nested |-> "none"]
     ELSE IF inner.result # "ok" /\ ~catches
       THEN [state |-> w, result |-> "transfer failed",
             verifierCalled |-> TRUE, nested |-> inner.result]
     ELSE [state |-> inner.state, result |-> "ok",
           verifierCalled |-> TRUE, nested |-> inner.result]

(* ------------------------------- state -------------------------------- *)

VARIABLES
  tree,       \* the MerkleTree object
  lastCall,   \* the last call made on the tree and how it ended
  written,    \* the leaf last written at each index insert() has handed out
  inserted,   \* the indices an accepted insert-mode update has written
  direct,     \* how many leaf slots callers wrote first by a call that is
              \* neither insert() nor an in-place update of an inserted leaf
  ledger,     \* the Whirlwind contract: storage, balance, emitted events
  lastTx,     \* the last transaction sent to the ledger and how it ended
  client,     \* a client's off-chain trees, rebuilt from the Deposit events
  generator,  \* the NoirCircuitTomlGenerator object: its tree and deposits
  lastToml,   \* the last call made on the generator and what it returned
  pending,    \* the deposit witness built and not yet sent to the ledger
  run         \* the last execution of a circuit: its inputs and outcome

treeVars == <<tree, lastCall, written, inserted, direct>>

ledgerVars == <<ledger, lastTx, client>>

generatorVars == <<generator, lastToml, pending>>

vars == <<tree, lastCall, written, inserted, direct, ledger, lastTx, client,
          generator, lastToml, pending, run>>

NoCall == [op |-> "none", index |-> 0, leaf |-> zeroValue, isInsert |-> FALSE,
           threw |-> FALSE]

NoTx == [op |-> "none", sender |-> "alice", prf |-> Garbage, newRoot |-> <<>>,
         commitment |-> <<>>, root |-> <<>>, nullifier |-> <<>>, value |-> 0,
         result |-> "ok", verifierCalled |-> FALSE, nested |-> "none"]

EmptyTree == initialize(MerkleTree(Depth), <<>>)

\* The ledger deployed from the given source file with the verifiers and the
\* depth scripts/deploy.js passes, and the root of the empty tree as genesis
\* root.
Deployed(contract) ==
  Whirlwind(contract, "owner", "DepositVerifier", "WithdrawVerifier", Depth,
            root(EmptyTree))

\* The initialRoot literal of scripts/deploy.js (leading byte, as above).
DeployRootByte == 24

\* scripts/deploy.js main: the ledger it deploys, from the given source file.
deployMain(contract) ==
  Whirlwind(contract, "owner", "DepositVerifier", "WithdrawVerifier", Depth,
            <<DeployRootByte>>)

TreeIdle ==
  /\ tree = EmptyTree /\ lastCall = NoCall /\ written = <<>>
  /\ inserted = {} /\ direct = 0

\* A client that has seen no Deposit event: its mirror of the on-chain tree
\* and the mirror as it was one event earlier.
NoEvents == [tree |-> EmptyTree, before |-> EmptyTree]

\* The client inserts the commitment of a Deposit event into its mirror.
onDeposit(c, commitment) ==
  [tree |-> insert(c.tree, commitment).tree, before |-> c.tree]

LedgerIdle ==
  /\ ledger = Deployed("provided")
  /\ lastTx = NoTx
  /\ client = NoEvents

\* new NoirCircuitTomlGenerator(); init()
NoirCircuitTomlGenerator == [tree |-> EmptyTree, deposits |-> <<>>]

NoToml == [op |-> "none", threw |-> FALSE, toml |-> [none |-> <<>>]]

\* No witness is waiting to be sent.
NoPending == [op |-> "none"]

GeneratorIdle ==
  generator = NoirCircuitTomlGenerator /\ lastToml = NoToml /\ pending = NoPending

\* No circuit has been executed.
NoRun == [circuit |-> "none"]

CircuitIdle == run = NoRun

(* ----------------------------- accumulator ---------------------------- *)

InitTree ==
  /\ tree = EmptyTree
  /\ lastCall = NoCall
  /\ written = <<>>
  /\ inserted = {}
  /\ direct = 0
  /\ LedgerIdle
  /\ GeneratorIdle
  /\ CircuitIdle

\* tree.insert(leaf)
Insert(leaf) ==
  /\ tree.totalLeaves < MaxLeaves
  /\ \E r \in {insert(tree, leaf)} :
        /\ tree' = r.tree
        /\ lastCall' = [op |-> "insert", index |-> tree.totalLeaves, leaf |-> leaf,
                        isInsert |-> TRUE, threw |-> r.threw]
        /\ written' = IF r.threw THEN written ELSE Append(written, leaf)
        /\ inserted' = IF r.threw THEN inserted
                       ELSE inserted \cup {tree.totalLeaves}
  /\ UNCHANGED <<direct, ledgerVars, generatorVars, run>>

\* tree.update(index, leaf, isInsert)
Update(index, leaf, isInsert) ==
  /\ \E r \in {update(tree, index, leaf, isInsert)} :
        /\ tree' = r.tree
        /\ lastCall' = [op |-> "update", index |-> index, leaf |-> leaf,
                        isInsert |-> isInsert, threw |-> r.threw]
        /\ written' = IF ~r.threw /\ ~isInsert /\ index \in 0..(Len(written) - 1)
                        THEN [written EXCEPT ![index + 1] = leaf]
                        ELSE written
        /\ inserted' = IF ~r.threw /\ isInsert THEN inserted \cup {index}
                       ELSE inserted
        /\ direct' = IF ~r.threw /\ index \notin inserted /\ (isInsert \/ index < 0)
                       THEN direct + 1
                       ELSE direct
  /\ UNCHANGED <<ledgerVars, generatorVars, run>>

NextTree ==
  \/ \E leaf \in Leaves : Insert(leaf)
  \/ \E index \in 0..Capacity, leaf \in Leaves : Update(index, leaf, FALSE)

SpecTree == InitTree /\ [][NextTree]_vars

\* Indices callers pass to update() and proof(): the index domain and one
\* index on either side of it.
ApiIndices == (-1)..Capacity

\* tree.proof(index): reads the tree, returns without throwing.
Proof(index) ==
  /\ \E r \in {proofCall(tree, index)} :
       /\ tree' = r.tree
       /\ lastCall' = [op |-> "proof", index |-> index, leaf |-> r.result.leaf,
                       isInsert |-> FALSE, threw |-> FALSE]
  /\ UNCHANGED <<written, inserted, direct, ledgerVars, generatorVars, run>>

\* The calls of the public interface NextTree leaves out: update() in insert
\* mode, update() below the index domain, proof().
NextApi ==
  \/ \E index \in ApiIndices, leaf \in Leaves :
       (direct < MaxDirect \/ index \in inserted) /\ Update(index, leaf, TRUE)
  \/ \E leaf \in Leaves : direct < MaxDirect /\ Update(-1, leaf, FALSE)
  \/ \E index \in ApiIndices : Proof(index)

\* Every public method of MerkleTree, called with any argument.
SpecTreeApi == InitTree /\ [][NextTree \/ NextApi]_vars

(* ------------------------- merkle-tree-demo ---------------------------- *)

\* lab2/merkle-tree-demo: new MerkleTree(3).
DemoLevels == 3

\* The most leaves the demo tree is given.
DemoMaxLeaves == 4

\* The default leaves of demo.ts.
DefaultLeaves == {<<1>>, <<2>>, <<3>>}

\* Leaves callers insert afterwards: the new leaf of demo.ts, the default
\* leaves again, and the hash of two of them.
DemoLeaves == DefaultLeaves \cup {<<4>>, pedersenHash(<<1>>, <<2>>)}

\* Sequences over S of length at most n.
SeqUpTo(S, n) == UNION {[1..k -> S] : k \in 0..n}

\* new MerkleTree(3); initialize(defaultLeaves)
InitDemo ==
  /\ \E defaultLeaves \in SeqUpTo(DefaultLeaves, 3) :
       /\ tree = initialize(MerkleTree(DemoLevels), defaultLeaves)
       /\ written = defaultLeaves
       /\ inserted = 0..(Len(defaultLeaves) - 1)
  /\ lastCall = NoCall
  /\ direct = 0
  /\ LedgerIdle
  /\ GeneratorIdle
  /\ CircuitIdle

\* tree.insert(newLeaf)
DemoInsert(leaf) ==
  /\ tree.totalLeaves < DemoMaxLeaves
  /\ Insert(leaf)

\* tree.getIndex(leaf): reads the tree, returns an index or -1.
GetIndex(leaf) ==
  /\ lastCall' = [op |-> "getIndex", index |-> getIndex(tree, leaf), leaf |-> leaf,
                  isInsert |-> FALSE, threw |-> FALSE]
  /\ UNCHANGED <<tree, written, inserted, direct, ledgerVars, generatorVars, run>>

\* tree.root(): reads the tree; the value returned is recorded as leaf.
Root ==
  /\ \E r \in {rootCall(tree)} :
       /\ tree' = r.tree
       /\ lastCall' = [op |-> "root", index |-> 0, leaf |-> r.result,
                       isInsert |-> FALSE, threw |-> FALSE]
  /\ UNCHANGED <<written, inserted, direct, ledgerVars, generatorVars, run>>

NextDemo ==
  \/ Root
  \/ \E leaf \in DemoLeaves : DemoInsert(leaf)
  \/ \E leaf \in DemoLeaves : GetIndex(leaf)
  \/ \E index \in 0..(Pow2(DemoLevels) - 1) : Proof(index)

SpecDemo == InitDemo /\ [][NextDemo]_vars

(* ------------------------------- clients ------------------------------ *)

\* Secret identifiers (the nullifiers) and the blinding factor clients use.
Ids == {<<1>>, <<2>>}

Blinding == <<7>>

\* A tree of the caller's own making that holds one commitment nobody
\* deposited.
forgedTree == insert(EmptyTree, pedersenHash(<<1>>, Blinding)).tree

\* Trees a deposit witness is built from: the up-to-date mirror and the
\* mirror as it was one deposit earlier.
DepositTrees == {client.tree, client.before}

WithdrawTrees == DepositTrees \cup {forgedTree}

\* The deposit proof the prover returns for (id, Blinding) at leaf index i
\* of tree t, claiming oldRoot = t.root().
depositProof(t, i, id) ==
  LET oldPath == proof(t, i).pathElements
      commitment == pedersenHash(id, Blinding)
      index == numToFr(i)
      newRoot == IF fitsBits(index) THEN walk(commitment, oldPath, toLeBits(index))
                 ELSE root(t)
  IN prove("deposit",
           depositCircuit(id, Blinding, oldPath, root(t), newRoot, commitment, index),
           [oldRoot |-> root(t), newRoot |-> newRoot,
            commitment |-> commitment, index |-> index])

\* The withdraw proof the prover returns for (id, Blinding) at leaf index i
\* of tree t, claiming root = t.root().
withdrawProof(t, i, id) ==
  prove("withdraw",
        withdrawCircuit(Blinding, numToFr(i), proof(t, i).pathElements, root(t), id),
        [root |-> root(t), id |-> id])

\* Deposit transactions clients send: a proof from either tree at the last
\* or the next leaf index with the values it was made with; an up-to-date
\* proof with a new root that is not its own, with no payment or with twice
\* the unit; bytes that are no proof.
DepositCalls ==
  LET n == Len(ledger.depositLog)
      own(prf, value) == [prf |-> prf, newRoot |-> prf.pub.newRoot,
                          commitment |-> prf.pub.commitment, value |-> value]
      made == {depositProof(t, i, id) :
                 t \in DepositTrees, i \in {n - 1, n} \cap Nat, id \in Ids} \ {Garbage}
      fresh == {depositProof(client.tree, n, id) : id \in Ids} \ {Garbage}
  IN {own(prf, UNIT) : prf \in made}
     \cup {own(prf, value) : prf \in fresh, value \in {0, 2 * UNIT}}
     \cup {[own(prf, UNIT) EXCEPT !.newRoot = ledger.currentRoot] : prf \in fresh}
     \cup {[prf |-> Garbage, newRoot |-> ledger.currentRoot,
            commitment |-> pedersenHash(<<1>>, Blinding), value |-> UNIT]}

\* Withdraw transactions clients send: a proof from any tree for the first or
\* the last deposit with the nullifier it was made with; an up-to-date proof
\* with another nullifier; bytes that are no proof.  The packed contract also
\* takes a root: the proof's own or the ledger's.
WithdrawCalls ==
  LET n == Len(ledger.depositLog)
      made == {withdrawProof(t, i, id) :
                 t \in WithdrawTrees, i \in {0, n - 1} \cap Nat, id \in Ids} \ {Garbage}
      fresh == {prf \in made : prf.pub.root = root(client.tree)}
  IN {[sender |-> a, prf |-> prf, root |-> prf.pub.root, nullifier |-> prf.pub.id] :
        a \in Callers, prf \in made}
     \cup {[sender |-> "alice", prf |-> prf, root |-> ledger.currentRoot,
            nullifier |-> prf.pub.id] : prf \in made}
     \cup {[sender |-> "alice", prf |-> prf, root |-> prf.pub.root, nullifier |-> id] :
             prf \in fresh, id \in Ids}
     \cup {[sender |-> "alice", prf |-> Garbage, root |-> ledger.currentRoot,
            nullifier |-> id] : id \in Ids}

(* -------------------------------- ledger ------------------------------ *)

InitLedger ==
  /\ TreeIdle
  /\ ledger = Deployed("provided")
  /\ lastTx = NoTx
  /\ client = NoEvents
  /\ GeneratorIdle
  /\ CircuitIdle

InitAnyLedger ==
  /\ TreeIdle
  /\ \E contract \in {"provided", "packed"} : ledger = Deployed(contract)
  /\ lastTx = NoTx
  /\ client = NoEvents
  /\ GeneratorIdle
  /\ CircuitIdle

\* A deposit transaction sent to the provided contract.
Deposit(prf, newRoot, commitment, value) ==
  /\ ledger.contract = "provided"
  /\ \E r \in {deposit(ledger, prf, newRoot, commitment, value)} :
        /\ ledger' = r.state
        /\ client' = IF r.result = "ok" THEN onDeposit(client, commitment) ELSE client
        /\ lastTx' = [op |-> "deposit", sender |-> "alice", prf |-> prf,
                      newRoot |-> newRoot, commitment |-> commitment, root |-> <<>>,
                      nullifier |-> <<>>, value |-> value,
                      result |-> r.result, verifierCalled |-> r.verifierCalled,
                      nested |-> "none"]
  /\ UNCHANGED <<treeVars, generatorVars, run>>

\* A withdraw transaction sent to the provided contract.
Withdraw(sender, prf, nullifier) ==
  /\ ledger.contract = "provided"
  /\ \E r \in {withdraw(ledger, sender, prf, nullifier)} :
        /\ ledger' = r.state
        /\ lastTx' = [op |-> "withdraw", sender |-> sender, prf |-> prf,
                      newRoot |-> <<>>, commitment |-> <<>>, root |-> <<>>,
                      nullifier |-> nullifier, value |-> 0,
                      result |-> r.result, verifierCalled |-> r.verifierCalled,
                      nested |-> "none"]
  /\ UNCHANGED <<treeVars, client, generatorVars, run>>

\* A deposit transaction sent to hw5/contracts/whirlwind.sol.
DepositPacked(prf, newRoot, commitment, value) ==
  /\ ledger.contract = "packed"
  /\ \E r \in {depositPacked(ledger, prf, newRoot, commitment, value)} :
        /\ ledger' = r.state
        /\ client' = IF r.result = "ok" THEN onDeposit(client, commitment) ELSE client
        /\ lastTx' = [op |-> "deposit", sender |-> "alice", prf |-> prf,
                      newRoot |-> newRoot, commitment |-> commitment, root |-> <<>>,
                      nullifier |-> <<>>, value |-> value,
                      result |-> r.result, verifierCalled |-> r.verifierCalled,
                      nested |-> "none"]
  /\ UNCHANGED <<treeVars, generatorVars, run>>

\* A withdraw transaction sent to hw5/contracts/whirlwind.sol.
WithdrawWithRoot(sender, prf, callerRoot, nullifier) ==
  /\ ledger.contract = "packed"
  /\ \E r \in {withdrawWithRoot(ledger, sender, prf, callerRoot, nullifier)} :
        /\ ledger' = r.state
        /\ lastTx' = [op |-> "withdraw", sender |-> sender, prf |-> prf,
                      newRoot |-> <<>>, commitment |-> <<>>, root |-> callerRoot,
                      nullifier |-> nullifier, value |-> 0,
                      result |-> r.result, verifierCalled |-> r.verifierCalled,
                      nested |-> "none"]
  /\ UNCHANGED <<treeVars, client, generatorVars, run>>

\* Transactions sent to the provided contract.
NextLedger ==
  /\ ledger.contract = "provided"
  /\ \/ \E c \in DepositCalls : Deposit(c.prf, c.newRoot, c.commitment, c.value)
     \/ \E c \in WithdrawCalls : Withdraw(c.sender, c.prf, c.nullifier)

\* Transactions sent to hw5/contracts/whirlwind.sol.
NextPacked ==
  /\ ledger.contract = "packed"
  /\ \/ \E c \in DepositCalls : DepositPacked(c.prf, c.newRoot, c.commitment, c.value)
     \/ \E c \in WithdrawCalls : WithdrawWithRoot(c.sender, c.prf, c.root, c.nullifier)

\* The provided contract alone.
SpecLedger == InitLedger /\ [][NextLedger]_vars

\* Either source file deployed.
SpecAnyLedger == InitAnyLedger /\ [][NextLedger \/ NextPacked]_vars

\* A withdraw transaction sent by a contract that re-enters withdraw from
\* its receive function.
WithdrawReentrant(sender, prf, callerRoot, nullifier, catches) ==
  /\ \E r \in {withdrawReentrant(ledger, sender, prf, callerRoot, nullifier, catches)} :
        /\ ledger' = r.state
        /\ lastTx' = [op |-> "withdraw", sender |-> sender, prf |-> prf,
                      newRoot |-> <<>>, commitment |-> <<>>,
                      root |-> IF ledger.contract = "provided" THEN <<>> ELSE callerRoot,
                      nullifier |-> nullifier, value |-> 0,
                      result |-> r.result, verifierCalled |-> r.verifierCalled,
                      nested |-> r.nested]
  /\ UNCHANGED <<treeVars, client, generatorVars, run>>

NextReentrant ==
  \E c \in WithdrawCalls, catches \in BOOLEAN :
    WithdrawReentrant(c.sender, c.prf, c.root, c.nullifier, catches)

\* Either source file deployed, with re-entering recipients among the callers.
SpecReentrant == InitAnyLedger /\ [][NextLedger \/ NextPacked \/ NextReentrant]_vars

(* ------------------------ NoirCircuitTomlGenerator --------------------- *)

\* The DepositRecord deposit() and gentoml('deposit') push, for a tree t read
\* before the insertion and a tree after read after it.
DepositRecord(t, after, id, r) ==
  LET indexNumber == t.totalLeaves
      prf == proof(t, indexNumber)
  IN [id |-> id, r |-> r, commitment |-> pedersenHash(id, r),
      index |-> numToFr(indexNumber), oldRoot |-> root(t), newRoot |-> root(after),
      hashPath |-> prf.pathElements, pathIndices |-> prf.pathIndices]

\* deposit(id, r): the generator afterwards.
generatorDeposit(g, id, r) ==
  LET after == insert(g.tree, pedersenHash(id, r)).tree
  IN [tree |-> after,
      deposits |-> Append(g.deposits, DepositRecord(g.tree, after, id, r))]

\* this.deposits.find(rec => rec.index.toString() === indexFr.toString())
findRecord(deposits, indexFr) ==
  LET hits == {k \in 1..Len(deposits) : deposits[k].index = indexFr}
  IN IF hits = {} THEN 0 ELSE CHOOSE k \in hits : \A j \in hits : k <= j

\* A gentoml('deposit') that reads the leaf count after the insertion.
gentomlDepositIndexAfter(g, id, r) ==
  LET after == generatorDeposit(g, id, r)
      record == after.deposits[Len(after.deposits)]
  IN [generator |-> after, threw |-> FALSE,
      toml |-> [id |-> record.id, r |-> record.r, oldPath |-> record.hashPath,
                oldRoot |-> record.oldRoot, newRoot |-> record.newRoot,
                commitment |-> record.commitment,
                index |-> numToFr(after.tree.totalLeaves)]]

\* gentoml('deposit', id, r): the generator afterwards and the fields of the
\* TOML text returned.
gentomlDeposit(g, id, r) ==
  LET after == generatorDeposit(g, id, r)
      record == after.deposits[Len(after.deposits)]
  IN [generator |-> after, threw |-> FALSE,
      toml |-> [id |-> record.id, r |-> record.r, oldPath |-> record.hashPath,
                oldRoot |-> record.oldRoot, newRoot |-> record.newRoot,
                commitment |-> record.commitment, index |-> record.index]]

\* A gentoml('withdraw') that takes the record it returns off the list.
gentomlWithdrawConsumesRecord(g, indexNumber) ==
  LET k == findRecord(g.deposits, numToFr(indexNumber))
  IN IF k = 0
       THEN [generator |-> g, threw |-> TRUE, toml |-> NoToml.toml]
       ELSE [generator |->
               [g EXCEPT !.deposits = SubSeq(@, 1, k - 1) \o SubSeq(@, k + 1, Len(@))],
             threw |-> FALSE,
             toml |-> [r |-> g.deposits[k].r, index |-> g.deposits[k].index,
                       path |-> g.deposits[k].hashPath,
                       root |-> g.deposits[k].newRoot,
                       id |-> g.deposits[k].id]]

\* gentoml('withdraw', index): throws when no record has the index.
gentomlWithdraw(g, indexNumber) ==
  LET k == findRecord(g.deposits, numToFr(indexNumber))
  IN IF k = 0
       THEN [generator |-> g, threw |-> TRUE, toml |-> NoToml.toml]
       ELSE [generator |-> g, threw |-> FALSE,
             toml |-> [r |-> g.deposits[k].r, index |-> g.deposits[k].index,
                       path |-> g.deposits[k].hashPath,
                       root |-> g.deposits[k].newRoot,
                       id |-> g.deposits[k].id]]

\* gentoml(circuitType, param1, param2)
gentoml(g, circuitType, id, r, indexNumber) ==
  IF circuitType = "deposit" THEN gentomlDeposit(g, id, r)
  ELSE IF circuitType = "withdraw" THEN gentomlWithdraw(g, indexNumber)
  ELSE [generator |-> g, threw |-> TRUE, toml |-> NoToml.toml]

InitGenerator ==
  /\ TreeIdle
  /\ LedgerIdle
  /\ GeneratorIdle
  /\ CircuitIdle

\* generator.deposit(id, r)
GeneratorDeposit(id, r) ==
  /\ generator.tree.totalLeaves < MaxLeaves
  /\ generator' = generatorDeposit(generator, id, r)
  /\ lastToml' = [op |-> "deposit", circuitType |-> "deposit", id |-> id, r |-> r,
                  index |-> 0, threw |-> FALSE, toml |-> NoToml.toml]
  /\ UNCHANGED <<treeVars, ledgerVars, pending, run>>

\* generator.gentoml('deposit', id, r)
GentomlDeposit(id, r) ==
  /\ generator.tree.totalLeaves < MaxLeaves
  /\ \E res \in {gentoml(generator, "deposit", id, r, 0)} :
       /\ generator' = res.generator
       /\ lastToml' = [op |-> "gentoml", circuitType |-> "deposit", id |-> id,
                       r |-> r, index |-> 0, threw |-> res.threw, toml |-> res.toml]
  /\ UNCHANGED <<treeVars, ledgerVars, pending, run>>

\* generator.gentoml('withdraw', index)
GentomlWithdraw(index) ==
  /\ \E res \in {gentoml(generator, "withdraw", <<>>, <<>>, index)} :
       /\ generator' = res.generator
       /\ lastToml' = [op |-> "gentoml", circuitType |-> "withdraw", id |-> <<>>,
                       r |-> <<>>, index |-> index, threw |-> res.threw,
                       toml |-> res.toml]
  /\ UNCHANGED <<treeVars, ledgerVars, pending, run>>

\* A circuit type gentoml does not know (reachable from untyped callers).
OtherTypes == {"transfer"}

\* generator.gentoml(circuitType, ...) with another circuit type.
GentomlOther(circuitType) ==
  /\ \E res \in {gentoml(generator, circuitType, <<>>, <<>>, 0)} :
       /\ generator' = res.generator
       /\ lastToml' = [op |-> "gentoml", circuitType |-> circuitType, id |-> <<>>,
                       r |-> <<>>, index |-> 0, threw |-> res.threw,
                       toml |-> res.toml]
  /\ UNCHANGED <<treeVars, ledgerVars, pending, run>>

NextGenerator ==
  \/ \E circuitType \in OtherTypes : GentomlOther(circuitType)
  \/ \E id \in Ids : GeneratorDeposit(id, Blinding)
  \/ \E id \in Ids : GentomlDeposit(id, Blinding)
  \/ \E index \in 0..Capacity : GentomlWithdraw(index)

SpecGenerator == InitGenerator /\ [][NextGenerator]_vars

(* ------------------------------- protocol ------------------------------ *)

\* The depositor's steps of the protocol against the provided contract: the
\* witness comes from gentoml('deposit'), the prover turns it into the proof
\* file, scripts/separate-and-test.js sends the proof with 0.1 ETH.

\* The proof file the prover writes for a deposit witness, with the four
\* public inputs scripts/extract-public-inputs.js reads back from it.
depositProofFile(toml) ==
  prove("deposit",
        depositCircuit(toml.id, toml.r, toml.oldPath, toml.oldRoot, toml.newRoot,
                       toml.commitment, toml.index),
        [oldRoot |-> toml.oldRoot, newRoot |-> toml.newRoot,
         commitment |-> toml.commitment, index |-> toml.index])

\* The ledger is deployed with the root of the empty tree as genesis root;
\* the generator is fresh.
InitProtocol ==
  /\ TreeIdle
  /\ LedgerIdle
  /\ GeneratorIdle
  /\ CircuitIdle

\* The ledger is deployed by scripts/deploy.js; the generator is fresh.
InitDeployed ==
  /\ TreeIdle
  /\ ledger = deployMain("provided")
  /\ lastTx = NoTx
  /\ client = NoEvents
  /\ GeneratorIdle
  /\ CircuitIdle

\* The depositor builds the witness of its next deposit.
BuildDeposit(id, r) ==
  /\ pending = NoPending
  /\ generator.tree.totalLeaves < MaxLeaves
  /\ \E res \in {gentoml(generator, "deposit", id, r, 0)} :
       /\ generator' = res.generator
       /\ lastToml' = [op |-> "gentoml", circuitType |-> "deposit", id |-> id,
                       r |-> r, index |-> 0, threw |-> res.threw, toml |-> res.toml]
       /\ pending' = [op |-> "deposit", toml |-> res.toml]
  /\ UNCHANGED <<treeVars, ledgerVars, run>>

\* scripts/separate-and-test.js: whirlwind.deposit(depositProof, newRoot,
\* commitment, {value: 0.1 ETH}) with the values of the pending witness.
SubmitDeposit ==
  /\ pending # NoPending
  /\ \E prf \in {depositProofFile(pending.toml)} :
     \E res \in {deposit(ledger, prf, pending.toml.newRoot,
                         pending.toml.commitment, UNIT)} :
       /\ ledger' = res.state
       /\ client' = IF res.result = "ok"
                      THEN onDeposit(client, pending.toml.commitment) ELSE client
       /\ lastTx' = [op |-> "deposit", sender |-> "alice", prf |-> prf,
                     newRoot |-> pending.toml.newRoot,
                     commitment |-> pending.toml.commitment, root |-> <<>>,
                     nullifier |-> <<>>, value |-> UNIT,
                     result |-> res.result, verifierCalled |-> res.verifierCalled,
                     nested |-> "none"]
  /\ pending' = NoPending
  /\ UNCHANGED <<treeVars, generator, lastToml, run>>

NextProtocol ==
  \/ \E id \in Ids : BuildDeposit(id, Blinding)
  \/ SubmitDeposit

SpecProtocol == InitProtocol /\ [][NextProtocol]_vars

SpecDeployed == InitDeployed /\ [][NextProtocol]_vars

(* ------------------- reference values for the claims ------------------ *)

\* The Merkle root of a full vector of 2^k leaves, by halving.
RECURSIVE merkleRoot(_)
merkleRoot(leaves) ==
  IF Len(leaves) = 1 THEN leaves[1]
  ELSE LET h == Len(leaves) \div 2
       IN pedersenHash(merkleRoot(SubSeq(leaves, 1, h)),
                       merkleRoot(SubSeq(leaves, h + 1, Len(leaves))))

\* The written leaves, padded with the zero-leaf constant up to 2^Depth.
padded(ls) == [i \in 1..Capacity |-> IF i <= Len(ls) THEN ls[i] ELSE zeroValue]

storedLeaf(t, k) ==
  IF MapHas(t.storage, indexToKey(0, k)) THEN MapGet(t.storage, indexToKey(0, k))
  ELSE <<>>

\* The level-l zero constant: the leaf constant hashed with itself l times.
RECURSIVE zeroAt(_)
zeroAt(l) == IF l = 0 THEN zeroValue ELSE pedersenHash(zeroAt(l - 1), zeroAt(l - 1))

\* The index domain of a depth-Depth tree.
IndexDomain == 0..(Capacity - 1)

\* The leaf indices that hold a stored value.
storedIndices(t) ==
  {t.storage[i].key[2] : i \in {j \in 1..Len(t.storage) : t.storage[j].key[1] = 0}}

\* n XOR 1 and bit l of n, for n >= 0.
xor1(n) == IF n % 2 = 0 THEN n + 1 ELSE n - 1

bitOf(n, l) == (n \div Pow2(l)) % 2

\* The node at (level, index) of the Merkle tree over a full leaf vector.
nodeOf(leaves, level, index) ==
  merkleRoot(SubSeq(leaves, index * Pow2(level) + 1, (index + 1) * Pow2(level)))

\* The commitments of the first n recorded deposits, in order.
commitmentsOf(deposits, n) == [k \in 1..n |-> deposits[k].commitment]

(* ---------------------------- circuit runs ---------------------------- *)

\* Leaf vectors of depth-Depth trees: every slot empty or holding the
\* commitment of id 1.
LeafVectors == [1..Capacity -> {zeroValue, pedersenHash(<<1>>, Blinding)}]

\* Values a prover may try for oldPath[level] when the old tree has the
\* given leaves: the sibling of the path node, the path node itself, the
\* level's zero constant.
PathCandidates(leaves, index, level) ==
  IF index \in IndexDomain
    THEN {nodeOf(leaves, level, xor1(index \div Pow2(level))),
          nodeOf(leaves, level, index \div Pow2(level)),
          zeroAt(level)}
    ELSE {zeroAt(level)}

PathsFor(leaves, index) ==
  {path \in [1..Depth -> UNION {PathCandidates(leaves, index, l) : l \in 0..(Depth - 1)}] :
     \A l \in 0..(Depth - 1) : path[l + 1] \in PathCandidates(leaves, index, l)}

\* Values a prover may try for newRoot.
NewRootCandidates(leaves, index, oldPath, commitment) ==
  {merkleRoot(leaves)}
  \cup (IF index \in IndexDomain
          THEN {walk(commitment, oldPath, toLeBits(numToFr(index))),
                merkleRoot([leaves EXCEPT ![index + 1] = commitment])}
          ELSE {})

InitCircuit ==
  /\ TreeIdle
  /\ LedgerIdle
  /\ GeneratorIdle
  /\ CircuitIdle

\* One execution of deposit.nr's main, with oldRoot the root of the tree
\* over the given leaves.
RunDeposit(leaves, id, r, oldPath, newRoot, commitment, index) ==
  /\ run' = [circuit |-> "deposit", leaves |-> leaves, id |-> id, r |-> r,
             oldPath |-> oldPath, oldRoot |-> merkleRoot(leaves),
             newRoot |-> newRoot, commitment |-> commitment, index |-> index,
             satisfied |-> depositCircuit(id, r, oldPath, merkleRoot(leaves),
                                          newRoot, commitment, numToFr(index))]
  /\ UNCHANGED <<treeVars, ledgerVars, generatorVars>>

\* Each behaviour executes the circuit once.
NextCircuit ==
  /\ run = NoRun
  /\ \E leaves \in LeafVectors, id \in Ids, index \in 0..Capacity :
       \E oldPath \in PathsFor(leaves, index) :
         \E newRoot \in NewRootCandidates(leaves, index, oldPath,
                                          pedersenHash(id, Blinding)) :
           RunDeposit(leaves, id, Blinding, oldPath, newRoot,
                      pedersenHash(id, Blinding), index)

SpecCircuit == InitCircuit /\ [][NextCircuit]_vars

(* ---------------------------- claims: ledger --------------------------- *)

\* C1: no two accepted withdraws carry the same nullifier, and a withdraw
\* whose nullifier is already marked used is rejected as a double spend and
\* changes nothing, whatever proof it carries; each accepted withdraw pays one
\* unit, so deposits made under one id are paid out at most once.
C1_DoubleSpendRejected ==
  /\ [](/\ \A i, j \in 1..Len(ledger.withdrawLog) :
             ledger.withdrawLog[i].nullifier = ledger.withdrawLog[j].nullifier => i = j
        /\ ledger.usedNullifiers =
             {ledger.withdrawLog[i].nullifier : i \in 1..Len(ledger.withdrawLog)}
        /\ ledger.paid["alice"] + ledger.paid["vault"] = UNIT * Len(ledger.withdrawLog))
  /\ [][(lastTx'.op = "withdraw" /\ lastTx'.nullifier \in ledger.usedNullifiers)
          => (lastTx'.result = "Nullifier already used" /\ ledger' = ledger)]_vars

\* A withdraw was just rejected as a double spend although its proof is valid
\* for the current root, funds remain, and two deposits were made under the
\* nullifier's id.
C1_Witness ==
  /\ lastTx.op = "withdraw"
  /\ lastTx.result = "Nullifier already used"
  /\ verify(ledger.withdrawVerifier, lastTx.prf,
            [root |-> ledger.currentRoot, id |-> lastTx.nullifier])
  /\ ledger.balance >= UNIT
  /\ \E i, j \in 1..Len(ledger.depositLog) :
       /\ i # j
       /\ ledger.depositLog[i].commitment = pedersenHash(lastTx.nullifier, Blinding)
       /\ ledger.depositLog[j].commitment = pedersenHash(lastTx.nullifier, Blinding)

\* C2: a withdraw is accepted only if the withdraw verifier accepts its proof
\* for the public inputs [currentRoot, nullifier], currentRoot being the
\* ledger's root (which a withdraw does not change).
C2_WithdrawBoundToCurrentRoot ==
  (lastTx.op = "withdraw" /\ lastTx.result = "ok")
    => verify(ledger.withdrawVerifier, lastTx.prf,
              [root |-> ledger.currentRoot, id |-> lastTx.nullifier])

\* C3: a deposit is accepted only if the deposit verifier accepts its proof
\* for [currentRoot, newRoot, commitment, depositIndex] as stored when the
\* call is made; a deposit whose proof was made for an oldRoot other than the
\* current root is rejected and leaves currentRoot and depositIndex alone.
C3_DepositBoundToLiveState ==
  [][lastTx'.op = "deposit" =>
       /\ lastTx'.result = "ok" =>
            verify(ledger.depositVerifier, lastTx'.prf,
                   [oldRoot |-> ledger.currentRoot, newRoot |-> lastTx'.newRoot,
                    commitment |-> lastTx'.commitment,
                    index |-> numToFr(ledger.depositIndex)])
       /\ (lastTx'.prf.circuit = "deposit"
           /\ lastTx'.prf.pub.oldRoot # ledger.currentRoot) =>
            /\ lastTx'.result # "ok"
            /\ ledger'.currentRoot = ledger.currentRoot
            /\ ledger'.depositIndex = ledger.depositIndex]_vars

\* C4: an accepted deposit sets currentRoot to newRoot, adds one to
\* depositIndex, takes the payment and emits Deposit(newRoot, commitment, i)
\* with i the depositIndex before the call, and nothing else; a rejected
\* deposit changes nothing and emits nothing.
C4_DepositEffects ==
  [][lastTx'.op = "deposit" =>
       IF lastTx'.result = "ok"
         THEN ledger' = [ledger EXCEPT
                !.currentRoot = lastTx'.newRoot,
                !.depositIndex = ledger.depositIndex + 1,
                !.balance = ledger.balance + UNIT,
                !.depositLog = Append(ledger.depositLog,
                                      [newRoot |-> lastTx'.newRoot,
                                       commitment |-> lastTx'.commitment,
                                       index |-> ledger.depositIndex])]
         ELSE ledger' = ledger]_vars

\* After an accepted deposit, a deposit was just rejected by the verifier.
C4_Witness ==
  /\ lastTx.op = "deposit"
  /\ lastTx.result = "Invalid deposit proof"
  /\ lastTx.prf.circuit = "deposit"
  /\ ledger.depositIndex >= 1
  /\ ledger.depositLog[1].index = 0

\* C5: an accepted withdraw marks the nullifier used, emits
\* Withdraw(caller, nullifier) and pays one unit to the caller, and nothing
\* else; a withdraw that fails at any step (nullifier used, proof rejected,
\* payout failed) changes nothing.
C5_WithdrawAtomic ==
  [][lastTx'.op = "withdraw" =>
       IF lastTx'.result = "ok"
         THEN /\ lastTx'.nullifier \notin ledger.usedNullifiers
              /\ ledger' = [ledger EXCEPT
                   !.usedNullifiers = ledger.usedNullifiers \cup {lastTx'.nullifier},
                   !.withdrawLog = Append(ledger.withdrawLog,
                                          [recipient |-> lastTx'.sender,
                                           nullifier |-> lastTx'.nullifier]),
                   !.balance = ledger.balance - UNIT,
                   !.paid[lastTx'.sender] = ledger.paid[lastTx'.sender] + UNIT]
         ELSE ledger' = ledger]_vars

\* A withdraw with a fresh nullifier and a valid proof was just rolled back
\* because the payout failed.
C5_Witness ==
  /\ lastTx.op = "withdraw"
  /\ lastTx.result = "transfer failed"
  /\ lastTx.nullifier \notin ledger.usedNullifiers
  /\ ledger.balance >= UNIT

\* C6: depositIndex never exceeds maxDeposits = 2^Depth, and a deposit sent
\* when depositIndex = maxDeposits is rejected without the verifier being
\* invoked and without any state change.
C6_DepositCapacity ==
  /\ [](/\ ledger.maxDeposits = Capacity
        /\ ledger.depositIndex <= ledger.maxDeposits
        /\ Len(ledger.depositLog) = ledger.depositIndex)
  /\ [][(lastTx'.op = "deposit" /\ ledger.depositIndex = ledger.maxDeposits)
          => /\ lastTx'.result = "Deposit limit reached"
             /\ ~lastTx'.verifierCalled
             /\ ledger' = ledger]_vars

\* A deposit carrying a real proof and the right payment was just turned away
\* at the limit.
C6_Witness ==
  /\ lastTx.op = "deposit"
  /\ lastTx.result = "Deposit limit reached"
  /\ lastTx.prf.circuit = "deposit"
  /\ lastTx.value = UNIT
  /\ ledger.depositIndex = Capacity

(* ------------------------- claims: accumulator ------------------------- *)

\* C7: insert(leaf) called on a tree that already holds 2^Depth leaves
\* fails, and the call leaves the storage, the root and totalLeaves as they
\* were.
C7_InsertAtCapacityFails ==
  [][(tree.totalLeaves = Capacity /\ lastCall'.op = "insert")
       => (lastCall'.threw /\ tree' = tree)]_vars

\* C8: while at most 2^Depth leaves were inserted, the k-th insert call
\* (k from 0) put its leaf at leaf index k, and totalLeaves is the number of
\* insert calls made.
C8_InsertionOrder ==
  tree.totalLeaves <= Capacity =>
    /\ tree.totalLeaves = Len(written)
    /\ \A k \in 0..(Len(written) - 1) : storedLeaf(tree, k) = written[k + 1]
    /\ lastCall.op = "insert" =>
         /\ ~lastCall.threw
         /\ lastCall.index = tree.totalLeaves - 1
         /\ storedLeaf(tree, lastCall.index) = lastCall.leaf

C8_Witness ==
  /\ lastCall.op = "insert"
  /\ tree.totalLeaves = Capacity
  /\ lastCall.index = Capacity - 1

\* C9: after at most 2^Depth inserts and any in-place updates, for every
\* inserted index i the fold of proof(i).leaf through proof(i).pathElements
\* along proof(i).pathIndices equals root() and proof(i).root.
C9_PathRootConsistency ==
  tree.totalLeaves <= Capacity =>
    \A i \in 0..(tree.totalLeaves - 1) :
      LET p == proof(tree, i)
      IN /\ Len(p.pathElements) = Depth
         /\ walk(p.leaf, p.pathElements, p.pathIndices) = root(tree)
         /\ p.root = root(tree)

C9_Witness ==
  /\ tree.totalLeaves = Capacity
  /\ lastCall.op = "update"
  /\ ~lastCall.threw
  /\ lastCall.index = Capacity - 1

\* C10: after at most 2^Depth inserts and any in-place updates, root() is
\* the reference Merkle root of the 2^Depth-leaf vector holding the latest
\* leaf at every inserted index and the zero-leaf constant elsewhere.
C10_RootIsReference ==
  tree.totalLeaves <= Capacity => root(tree) = merkleRoot(padded(written))

C10_Witness ==
  /\ tree.totalLeaves \in 1..(Capacity - 1)
  /\ lastCall.op = "update"
  /\ ~lastCall.threw
  /\ written[lastCall.index + 1] = lastCall.leaf
  /\ \E k \in 1..Len(written) : written[k] # lastCall.leaf

\* C11: in an initialized tree into which nothing has been written, root()
\* is zeros[Depth], with zeros[0] the zero-leaf constant and zeros[l+1] =
\* Hash(zeros[l], zeros[l]); no call changes the zeros array.
C11_EmptyRootAndZeros ==
  /\ Len(tree.zeros) = Depth + 1
  /\ \A l \in 0..Depth : tree.zeros[l + 1] = zeroAt(l)
  /\ tree.storage = <<>> =>
       /\ root(tree) = zeroAt(Depth)
       /\ \A index \in ApiIndices : proof(tree, index).root = zeroAt(Depth)

\* proof() was just called for the next free slot of a tree nothing was
\* written into.
C11_Witness ==
  /\ tree.storage = <<>>
  /\ lastCall.op = "proof"
  /\ ~lastCall.threw
  /\ lastCall.index = tree.totalLeaves
  /\ proof(tree, lastCall.index).root = zeroAt(Depth)

\* C12: update(index, leaf, isInsert = true) fails when an accepted
\* insert-mode update (made directly or by insert) has written that index
\* before.
C12_DoubleInsertRejected ==
  [][(lastCall'.op = "update" /\ lastCall'.isInsert
      /\ lastCall'.index \in inserted)
       => lastCall'.threw]_vars

C14_IndexDomainEnforced ==
  /\ (lastCall.op \in {"update", "proof"} /\ lastCall.index \notin IndexDomain)
       => lastCall.threw
  /\ storedIndices(tree) \subseteq IndexDomain

\* C15: the leaf indices that hold a stored value are exactly
\* 0 .. totalLeaves-1.
C15_SequentialIndices ==
  storedIndices(tree) = 0..(tree.totalLeaves - 1)

\* C16: for every index of [0, 2^Depth) that holds no stored leaf, proof(index)
\* returns the level-0 zero constant as leaf and Depth siblings through which
\* the zero constant folds to root().
C16_EmptySlotProof ==
  \A index \in IndexDomain \ storedIndices(tree) :
    LET p == proof(tree, index)
    IN /\ p.leaf = zeroAt(0)
       /\ Len(p.pathElements) = Depth
       /\ walk(zeroAt(0), p.pathElements, p.pathIndices) = root(tree)

\* C17: for every index of [0, 2^Depth), proof(index) returns Depth path
\* elements and Depth path bits; bit l is bit l of index (little-endian) and
\* element l is the node at (l, (index >> l) XOR 1), stored or zeros[l].
C17_ProofShape ==
  \A index \in IndexDomain :
    LET p == proof(tree, index)
    IN /\ Len(p.pathElements) = Depth
       /\ Len(p.pathIndices) = Depth
       /\ \A l \in 0..(Depth - 1) :
            /\ p.pathIndices[l + 1] = bitOf(index, l)
            /\ p.pathElements[l + 1] =
                 LET k == indexToKey(l, xor1(index \div Pow2(l)))
                 IN IF MapHas(tree.storage, k) THEN MapGet(tree.storage, k)
                    ELSE zeroAt(l)

\* proof() was just called for an odd index above 1 whose siblings on both
\* lower levels are stored.
C17_Witness ==
  /\ lastCall.op = "proof"
  /\ lastCall.index = 3
  /\ MapHas(tree.storage, indexToKey(0, 2))
  /\ MapHas(tree.storage, indexToKey(1, 0))
  /\ proof(tree, 3).pathIndices[1] = 1
  /\ proof(tree, 3).pathIndices[2] = 1

\* C18: after update() wrote a leaf at an index of [0, 2^Depth), the stored
\* root is the value the circuits' walk gives from that leaf along the
\* siblings the tree holds and the little-endian bits of the index; the
\* deposit circuit's empty-leaf constant is the tree's zeros[0].
C18_CircuitWalkIsUpdateRoot ==
  /\ <<CircuitZeroByte>> = tree.zeros[1]
  /\ (lastCall.op \in {"insert", "update"} /\ ~lastCall.threw
      /\ lastCall.index \in IndexDomain) =>
       /\ MapHas(tree.storage, indexToKey(Depth, 0))
       /\ MapGet(tree.storage, indexToKey(Depth, 0)) =
            walk(lastCall.leaf, proof(tree, lastCall.index).pathElements,
                 toLeBits(numToFr(lastCall.index)))

\* A leaf was just written at an odd index beside a stored sibling.
C18_Witness ==
  /\ lastCall.op \in {"insert", "update"}
  /\ ~lastCall.threw
  /\ lastCall.index = 1
  /\ MapHas(tree.storage, indexToKey(0, 0))
  /\ tree.totalLeaves >= 3

\* C19: the witness gentoml('deposit', id, r) returns after fewer than
\* 2^Depth earlier deposits satisfies the deposit circuit; its index is the
\* number of earlier deposits, its oldRoot the root of the tree of the
\* earlier commitments, its newRoot the root of the tree after the insertion.
C19_DepositWitnessSatisfies ==
  (lastToml.op = "gentoml" /\ lastToml.circuitType = "deposit"
   /\ Len(generator.deposits) <= Capacity) =>
    LET w == lastToml.toml
        n == Len(generator.deposits)
    IN /\ ~lastToml.threw
       /\ w.id = lastToml.id
       /\ w.r = lastToml.r
       /\ depositCircuit(w.id, w.r, w.oldPath, w.oldRoot, w.newRoot,
                         w.commitment, w.index)
       /\ w.commitment = pedersenHash(lastToml.id, lastToml.r)
       /\ w.index = numToFr(n - 1)
       /\ walk(<<CircuitZeroByte>>, w.oldPath, toLeBits(w.index)) = w.oldRoot
       /\ walk(w.commitment, w.oldPath, toLeBits(w.index)) = w.newRoot
       /\ w.oldRoot = merkleRoot(padded(commitmentsOf(generator.deposits, n - 1)))
       /\ w.newRoot = merkleRoot(padded(commitmentsOf(generator.deposits, n)))
       /\ w.newRoot = root(generator.tree)

\* gentoml('deposit') just returned the witness of the last deposit the tree
\* has room for, after deposits made through deposit() and gentoml().
C19_Witness ==
  /\ lastToml.op = "gentoml"
  /\ lastToml.circuitType = "deposit"
  /\ Len(generator.deposits) = Capacity
  /\ lastToml.toml.index = numToFr(Capacity - 1)
  /\ \E k \in 1..(Capacity - 1) : generator.deposits[k].id # lastToml.id

\* C20: when deposit.nr is satisfied with oldRoot the root of a tree T, the
\* leaf of T at index is the zero-leaf constant and newRoot is the root of T
\* with commitment put at index; no run is satisfied for an index whose slot
\* in T is occupied.
C20_DepositCircuitSound ==
  run.circuit = "deposit" =>
    /\ run.satisfied =>
         /\ run.index \in IndexDomain
         /\ run.leaves[run.index + 1] = zeroValue
         /\ run.newRoot = merkleRoot([run.leaves EXCEPT ![run.index + 1] = run.commitment])
         /\ \A l \in 0..(Depth - 1) :
              run.oldPath[l + 1] = nodeOf(run.leaves, l, xor1(run.index \div Pow2(l)))
    /\ (run.index \in IndexDomain /\ run.leaves[run.index + 1] # zeroValue)
         => ~run.satisfied

\* The circuit was satisfied for the last slot of a tree that holds a
\* commitment beside it.
C20_Witness ==
  /\ run.circuit = "deposit"
  /\ run.satisfied
  /\ run.index = Capacity - 1
  /\ run.leaves[Capacity - 1] # zeroValue

(* ----------------------- claims: withdraw witness ---------------------- *)

\* C21: for every recorded deposit i, the witness gentoml('withdraw', i)
\* returns satisfies the withdraw circuit: walking its path from Hash(id, r)
\* along the little-endian bits of its index yields its root, and its id, r
\* and index are those of deposit i.
C21_WithdrawWitnessSatisfies ==
  (lastToml.op = "gentoml" /\ lastToml.circuitType = "withdraw"
   /\ lastToml.index < Len(generator.deposits)) =>
    LET w == lastToml.toml
        record == generator.deposits[lastToml.index + 1]
    IN /\ ~lastToml.threw
       /\ w.id = record.id
       /\ w.r = record.r
       /\ w.index = numToFr(lastToml.index)
       /\ withdrawCircuit(w.r, w.index, w.path, w.root, w.id)

\* C22: the witness gentoml('withdraw', i) returns for a recorded deposit i,
\* after any number of later deposits, carries the tree's state at the time
\* of the call: its root is tree.root() and its path is
\* tree.proof(i).pathElements.
C22_WithdrawWitnessIsCurrent ==
  (lastToml.op = "gentoml" /\ lastToml.circuitType = "withdraw"
   /\ lastToml.index < Len(generator.deposits)) =>
    /\ ~lastToml.threw
    /\ lastToml.toml.root = root(generator.tree)
    /\ lastToml.toml.path = proof(generator.tree, lastToml.index).pathElements

(* ----------------------- claims: ledger, continued --------------------- *)

\* C24: of two deposit witnesses built from the same ledger state (same
\* currentRoot and depositIndex) the one processed first is accepted and the
\* other is rejected with no state change; a witness rebuilt for the
\* ledger's new root and index is accepted while capacity remains.
C24_ConcurrentDeposits ==
  [][lastTx'.op = "deposit" =>
       LET prf == lastTx'.prf
           n == ledger.depositIndex
           sent == /\ prf # Garbage
                   /\ lastTx'.newRoot = prf.pub.newRoot
                   /\ lastTx'.commitment = prf.pub.commitment
                   /\ lastTx'.value = UNIT
       IN /\ (sent /\ n >= 1 /\ prf.pub.oldRoot = root(client.before)
                 /\ prf.pub.index = numToFr(n - 1))
               => (lastTx'.result # "ok" /\ ledger' = ledger)
          /\ (sent /\ n < ledger.maxDeposits /\ prf.pub.oldRoot = ledger.currentRoot
                 /\ prf.pub.index = numToFr(n))
               => /\ lastTx'.result = "ok"
                  /\ ledger'.currentRoot = prf.pub.newRoot
                  /\ ledger'.depositIndex = n + 1]_vars

\* A deposit was just rejected whose witness was built from the state the
\* last accepted deposit was built from, for another commitment.
C24_Witness ==
  /\ lastTx.op = "deposit"
  /\ lastTx.result = "Invalid deposit proof"
  /\ lastTx.prf # Garbage
  /\ lastTx.value = UNIT
  /\ lastTx.newRoot = lastTx.prf.pub.newRoot
  /\ lastTx.commitment = lastTx.prf.pub.commitment
  /\ ledger.depositIndex >= 1
  /\ lastTx.prf.pub.oldRoot = root(client.before)
  /\ lastTx.prf.pub.index = numToFr(ledger.depositIndex - 1)
  /\ lastTx.commitment # ledger.depositLog[ledger.depositIndex].commitment

\* C26: usedNullifiers only grows: no step takes a nullifier out, and the
\* only step that adds one is an accepted withdraw, which adds exactly the
\* nullifier it was called with.
C26_NullifiersOnlyGrow ==
  [][/\ ledger.usedNullifiers \subseteq ledger'.usedNullifiers
     /\ ledger'.usedNullifiers # ledger.usedNullifiers
          => /\ lastTx'.op = "withdraw"
             /\ lastTx'.result = "ok"
             /\ lastTx'.nullifier \notin ledger.usedNullifiers
             /\ ledger'.usedNullifiers =
                  ledger.usedNullifiers \cup {lastTx'.nullifier}]_vars

\* Two nullifiers are marked used and a deposit was accepted after both
\* withdraws.
C26_Witness ==
  /\ Cardinality(ledger.usedNullifiers) = 2
  /\ lastTx.op = "deposit"
  /\ lastTx.result = "ok"

\* C27: in withdraw the nullifier check comes before proof verification: a
\* withdraw whose nullifier is already marked used never reaches the
\* verifier and is rejected the same way whatever proof it carries.  (A
\* rejected withdraw changes nothing, so its nullifier is marked afterwards
\* exactly when it was marked before.)
C27_NullifierCheckFirst ==
  (lastTx.op = "withdraw" /\ lastTx.result # "ok"
   /\ lastTx.nullifier \in ledger.usedNullifiers)
    => (~lastTx.verifierCalled /\ lastTx.result = "Nullifier already used")

\* A withdraw with a used nullifier and bytes that are no proof was just
\* rejected, as one with a valid proof would be.
C27_Witness ==
  /\ lastTx.op = "withdraw"
  /\ lastTx.nullifier \in ledger.usedNullifiers
  /\ lastTx.prf = Garbage
  /\ lastTx.result = "Nullifier already used"
  /\ ~lastTx.verifierCalled

\* C28: the Deposit events carry the indices 0, 1, 2, ... in emission order
\* and depositIndex is the number of deposits accepted so far; a rejected
\* deposit and every withdraw leave depositIndex as it was.
C28_DepositIndicesSequential ==
  /\ [](/\ \A k \in 1..Len(ledger.depositLog) : ledger.depositLog[k].index = k - 1
        /\ ledger.depositIndex = Len(ledger.depositLog)
        /\ ledger.depositIndex = client.tree.totalLeaves)
  /\ [][(lastTx'.op = "withdraw" \/ lastTx'.result # "ok")
          => (ledger'.depositIndex = ledger.depositIndex
              /\ ledger'.depositLog = ledger.depositLog)]_vars

\* The third Deposit event carries index 2 and the second withdraw has just
\* been accepted: depositIndex is still 3.
C28_Witness ==
  /\ Len(ledger.depositLog) = 3
  /\ ledger.depositLog[3].index = 2
  /\ lastTx.op = "withdraw"
  /\ lastTx.result = "ok"
  /\ Len(ledger.withdrawLog) = 2
  /\ ledger.depositIndex = 3

\* C29: a deposit whose payment is not the unit amount is rejected before
\* the deposit verifier is called and changes neither currentRoot nor
\* depositIndex nor the balance; an accepted deposit raises the balance by
\* exactly one unit.
C29_ExactPayment ==
  [][lastTx'.op = "deposit" =>
       /\ lastTx'.value # UNIT
            => /\ lastTx'.result # "ok"
               /\ ~lastTx'.verifierCalled
               /\ ledger'.currentRoot = ledger.currentRoot
               /\ ledger'.depositIndex = ledger.depositIndex
               /\ ledger'.balance = ledger.balance
       /\ lastTx'.result = "ok"
            => (lastTx'.value = UNIT /\ ledger'.balance = ledger.balance + UNIT)]_vars

\* A deposit that paid twice the unit was just rejected for its payment
\* although its proof is valid for the ledger's state and room remains.
C29_Witness ==
  /\ lastTx.op = "deposit"
  /\ lastTx.value = 2 * UNIT
  /\ lastTx.result = "Must deposit exactly 0.1 ETH"
  /\ ledger.depositIndex >= 1
  /\ verify(ledger.depositVerifier, lastTx.prf,
            [oldRoot |-> ledger.currentRoot, newRoot |-> lastTx.newRoot,
             commitment |-> lastTx.commitment,
             index |-> numToFr(ledger.depositIndex)])

\* C32: an accepted deposit stays withdrawable: in every reachable state,
\* for every Deposit event with commitment Hash(id, r) whose id is not
\* marked used, a withdraw with nullifier id and the witness (r, index,
\* path of index in the synchronized tree), sent by an account that takes
\* the payment, is accepted; deposits made later do not change that.
C32_DepositStaysWithdrawable ==
  \A k \in 1..Len(ledger.depositLog), id \in Ids :
    (ledger.depositLog[k].commitment = pedersenHash(id, Blinding)
     /\ id \notin ledger.usedNullifiers)
      => /\ withdrawProof(client.tree, k - 1, id) # Garbage
         /\ withdraw(ledger, "alice", withdrawProof(client.tree, k - 1, id), id).result
              = "ok"

\* The first deposit has just been withdrawn after two later deposits, one
\* of them under another id.
C32_Witness ==
  /\ lastTx.op = "withdraw"
  /\ lastTx.result = "ok"
  /\ Len(ledger.depositLog) >= 3
  /\ ledger.depositLog[1].commitment = pedersenHash(lastTx.nullifier, Blinding)
  /\ \A k \in 2..Len(ledger.depositLog) :
       ledger.depositLog[k].commitment # ledger.depositLog[1].commitment
  /\ Len(ledger.withdrawLog) = 1

\* C33: the ledger stays solvent: accepted withdrawals never outnumber
\* accepted deposits, the balance is unit x (accepted deposits - accepted
\* withdrawals), and the payout of a withdraw that passed the nullifier and
\* proof checks never fails for lack of funds.
C33_Solvent ==
  /\ Len(ledger.withdrawLog) <= Len(ledger.depositLog)
  /\ ledger.balance = UNIT * (Len(ledger.depositLog) - Len(ledger.withdrawLog))
  /\ (lastTx.op = "withdraw" /\ lastTx.result = "transfer failed")
       => ledger.balance >= UNIT

\* C34: withdraw marks the nullifier before it transfers the payout: a
\* withdraw with the same nullifier started from the recipient's payout
\* callback is rejected as already used, and, nested calls included, the
\* ledger has paid out exactly one unit for every used nullifier.
C34_ReentrantWithdrawRejected ==
  [][/\ (lastTx'.op = "withdraw" /\ lastTx'.nested # "none")
          => lastTx'.nested = "Nullifier already used"
     /\ ledger'.balance
          = UNIT * (Len(ledger'.depositLog) - Cardinality(ledger'.usedNullifiers))
     /\ Len(ledger'.withdrawLog) = Cardinality(ledger'.usedNullifiers)]_vars

\* A withdraw was accepted whose recipient re-entered withdraw while the
\* ledger still held another unit.
C34_Witness ==
  /\ lastTx.op = "withdraw"
  /\ lastTx.result = "ok"
  /\ lastTx.nested = "Nullifier already used"
  /\ ledger.balance >= UNIT

\* C35: ledger transitions touch only their own part of the state: a
\* withdraw, accepted or rejected, leaves currentRoot and depositIndex as
\* they were, a deposit, accepted or rejected, leaves usedNullifiers as it
\* was, and maxDeposits, owner and both verifier addresses never change.
C35_LedgerFrame ==
  [][/\ lastTx'.op = "withdraw"
          => /\ ledger'.currentRoot = ledger.currentRoot
             /\ ledger'.depositIndex = ledger.depositIndex
             /\ ledger'.depositLog = ledger.depositLog
     /\ lastTx'.op = "deposit"
          => /\ ledger'.usedNullifiers = ledger.usedNullifiers
             /\ ledger'.withdrawLog = ledger.withdrawLog
     /\ ledger'.maxDeposits = ledger.maxDeposits
     /\ ledger'.owner = ledger.owner
     /\ ledger'.depositVerifier = ledger.depositVerifier
     /\ ledger'.withdrawVerifier = ledger.withdrawVerifier]_vars

\* A withdraw was just accepted in a ledger that has left its genesis root,
\* counts at least two deposits and already held another used nullifier.
C35_Witness ==
  /\ lastTx.op = "withdraw"
  /\ lastTx.result = "ok"
  /\ ledger.depositIndex >= 2
  /\ ledger.currentRoot # root(EmptyTree)
  /\ Cardinality(ledger.usedNullifiers) = 2
  /\ ledger.maxDeposits = Capacity

(* --------------------------- claims: protocol -------------------------- *)

\* C23: whenever no deposit submission is in flight the generator's tree
\* mirrors the ledger: its root is currentRoot and its leaf count is
\* depositIndex; a deposit the ledger rejects leaves the two synchronized.
C23_AccumulatorMirrorsLedger ==
  pending = NoPending =>
    /\ root(generator.tree) = ledger.currentRoot
    /\ generator.tree.totalLeaves = ledger.depositIndex

\* C25: the ledger's genesis currentRoot is the root of the empty tree of the
\* same depth, zeros[Depth], so the first deposit witness built from an
\* empty generator is accepted.
C25_GenesisRootIsEmptyRoot ==
  /\ ledger.depositLog = <<>> => ledger.currentRoot = zeroAt(Depth)
  /\ (lastTx.op = "deposit" /\ Len(generator.deposits) = 1 /\ pending = NoPending)
       => lastTx.result = "ok"

\* C30: a withdrawal does not reveal which deposit it spends: what an
\* accepted withdraw changes, emits and pays is fixed by the ledger's state,
\* the caller and the nullifier, whatever the private witness behind the
\* proof; and the public root of a witness gentoml('withdraw', i) returns is
\* the same for every recorded deposit i, so it does not tell the position
\* of the spent commitment.
C30_WithdrawHidesPosition ==
  /\ [][(lastTx'.op = "withdraw" /\ lastTx'.result = "ok")
          => ledger' = withdrawEffects(ledger, lastTx'.sender, lastTx'.nullifier)]_vars
  /\ [](\A i, j \in 0..(Len(generator.deposits) - 1) :
          gentomlWithdraw(generator, i).toml.root
            = gentomlWithdraw(generator, j).toml.root)

(* -------------------- claims: generator, continued --------------------- *)

\* C39: gentoml('withdraw', index) for an index with no recorded deposit and
\* gentoml with a circuit type other than 'deposit' and 'withdraw' fail
\* with an error and leave the tree and the deposit records unchanged;
\* gentoml('withdraw', index) for a recorded index returns without
\* modifying the tree or any record.
C39_GentomlFailuresChangeNothing ==
  [][(lastToml'.op = "gentoml" /\ lastToml'.circuitType # "deposit") =>
       /\ generator'.tree = generator.tree
       /\ generator'.deposits = generator.deposits
       /\ lastToml'.threw <=>
            \/ lastToml'.circuitType # "withdraw"
            \/ \A k \in 1..Len(generator.deposits) :
                 generator.deposits[k].index # numToFr(lastToml'.index)]_vars

\* gentoml('withdraw') has just thrown for an index without a record while
\* other deposits are recorded.
C39_Witness ==
  /\ lastToml.op = "gentoml"
  /\ lastToml.circuitType = "withdraw"
  /\ lastToml.threw
  /\ Len(generator.deposits) >= 2
  /\ lastToml.index >= Len(generator.deposits)

(* ----------------------- claims: merkle-tree-demo ---------------------- *)

\* C31: in a depth-3 tree initialized with the leaves 1, 2, 3, insert(4)
\* stores the leaf at index 3; afterwards root() is
\* Hash(Hash(Hash(1,2), Hash(3,4)), zeros[2]) and proof(3) returns
\* pathElements [3, Hash(1,2), zeros[2]] and pathIndices [1, 1, 0].
C31_DemoScenario ==
  (tree.levels = 3 /\ written = <<<<1>>, <<2>>, <<3>>, <<4>>>>
   /\ lastCall.op = "insert" /\ lastCall.leaf = <<4>>) =>
    LET h01 == pedersenHash(<<1>>, <<2>>)
        h23 == pedersenHash(<<3>>, <<4>>)
    IN /\ ~lastCall.threw
       /\ lastCall.index = 3
       /\ MapHas(tree.storage, indexToKey(0, 3))
       /\ MapGet(tree.storage, indexToKey(0, 3)) = <<4>>
       /\ root(tree) = pedersenHash(pedersenHash(h01, h23), zeroAt(2))
       /\ proof(tree, 3).pathElements = <<<<3>>, h01, zeroAt(2)>>
       /\ proof(tree, 3).pathIndices = <<1, 1, 0>>
       /\ proof(tree, 3).leaf = <<4>>

\* The tree was initialized with 1, 2, 3 and insert(4) has just returned.
C31_Witness ==
  /\ tree.levels = 3
  /\ written = <<<<1>>, <<2>>, <<3>>, <<4>>>>
  /\ lastCall.op = "insert"
  /\ lastCall.leaf = <<4>>
  /\ tree.totalLeaves = 4

\* C38: getIndex(leaf) returns a leaf-layer index whose stored value is
\* leaf, and -1 exactly when no leaf-layer slot holds the value; it never
\* answers with the index of an internal node or of the root.
C38_GetIndexFindsLeaf ==
  lastCall.op = "getIndex" =>
    LET holders == {k \in 0..(Pow2(tree.levels) - 1) :
                      /\ MapHas(tree.storage, indexToKey(0, k))
                      /\ MapGet(tree.storage, indexToKey(0, k)) = lastCall.leaf}
    IN IF holders = {} THEN lastCall.index = -1 ELSE lastCall.index \in holders

PathKeys(levels, index) == {indexToKey(l, index \div Pow2(l)) : l \in 0..levels}

\* C37: an accepted in-place update(index, leaf, false) with
\* index < totalLeaves leaves totalLeaves unchanged, changes no leaf other
\* than the one at index, rewrites only the Depth+1 nodes on the path from
\* (0, index) to the root, and afterwards the fold of proof(i) gives root()
\* for every index i in [0, totalLeaves).
C37_InPlaceUpdateFrame ==
  [][(lastCall'.op = "update" /\ ~lastCall'.isInsert /\ ~lastCall'.threw
      /\ lastCall'.index \in 0..(tree.totalLeaves - 1)) =>
       /\ tree'.totalLeaves = tree.totalLeaves
       /\ tree'.zeros = tree.zeros
       /\ nodeOrZero(tree', 0, lastCall'.index) = lastCall'.leaf
       /\ \A k \in 0..(tree.totalLeaves - 1) :
            k # lastCall'.index => nodeOrZero(tree', 0, k) = nodeOrZero(tree, 0, k)
       /\ \A e \in 1..Len(tree.storage) : MapHas(tree'.storage, tree.storage[e].key)
       /\ \A e \in 1..Len(tree'.storage) :
            tree'.storage[e].key \notin PathKeys(tree.levels, lastCall'.index)
              => /\ MapHas(tree.storage, tree'.storage[e].key)
                 /\ MapGet(tree.storage, tree'.storage[e].key) = tree'.storage[e].value
       /\ \A i \in 0..(tree'.totalLeaves - 1) :
            LET p == proof(tree', i)
            IN walk(p.leaf, p.pathElements, p.pathIndices) = root(tree')]_vars

====
